---------------------------- MODULE Spec2Model ----------------------------
(***************************************************************************)
(* A model of snapshotter.py: the duration parser (parse_timedelta), the   *)
(* retention engine (Task.find_expired_snapshots) and the run of main      *)
(* (Snapshotter.take_snapshot followed by Snapshotter.perform_cleanup).    *)
(*                                                                         *)
(* Durations and clock readings are whole numbers of ticks, the resolution *)
(* of datetime.timedelta.  A snapshot directory's name is a whole number   *)
(* of seconds (SNAPSHOT_FORMAT has no sub-second field).                   *)
(***************************************************************************)
EXTENDS Integers, Sequences, FiniteSets, TLC

VARIABLES
    s,          \* ParserSpec: the string handed to parse_timedelta
    delta,      \* ParserSpec: <<what parse_timedelta returned>>, <<>> before the call
    config,     \* RetentionSpec: the keep.<n>.age / keep.<n>.number options of the task
    keep_rules, \* RetentionSpec: Task._keep_rules
    snapshots,  \* RetentionSpec: the list handed to find_expired_snapshots
    returned,   \* RetentionSpec: what each call so far returned and logged
    tasks,      \* Snapshotter._tasks: a sequence of [name, commands, keep_rules]
    fs,         \* the directory names under <snapshot_base_path>/<task name>
    clock,      \* the last reading of datetime.datetime.now()
    runs,       \* how many times main has been started
    pc,         \* where main is
    task_index, \* the index of the task of the running for loop
    command_index,  \* Task.take_snapshot: the index of the command to run next
    task_snapshot_path,  \* take_snapshot: the directory name made for this task
    environment,         \* take_snapshot: the overlay handed to the commands
    expired,    \* perform_cleanup: the expired snapshots still to remove
    exception,  \* the exception that ended main ("" while there is none)
    before,     \* per task, its directory when take_snapshot reached it in this run
    made,       \* per task, the directory name take_snapshot made in this run
    status,     \* per task, how take_snapshot went in this run
    removed,    \* per task, the directory names perform_cleanup removed in this run
    executed,   \* per task, the commands run in this run and their exit status
    cleaned,    \* per task, <<what perform_cleanup listed and found expired>> in this run
    denied      \* whether the file system has denied a removal in any run so far

parser_vars == <<s, delta>>

retention_vars == <<config, keep_rules, snapshots, returned>>

run_vars == <<tasks, fs, clock, runs, pc, task_index, command_index,
              task_snapshot_path, environment,
              expired, exception, before, made, status, removed, executed,
              cleaned, denied>>

vars == <<parser_vars, retention_vars, run_vars>>

(***************************************************************************)
(* Bounds of the model.                                                    *)
(***************************************************************************)
TicksPerSecond == 16    \* resolution of the clock below one second
MaxTokens == 3          \* (number, unit) tokens in a parsed string
MaxRules == 2           \* keep rules of a task
MaxKeep == 2            \* largest keep.<n>.number
MaxSnapshots == 3       \* snapshot directories handed to the retention engine
MaxRuns == 2            \* invocations of main

(***************************************************************************)
(* datetime.timedelta                                                      *)
(***************************************************************************)
SecondsPerHour == 3600
HoursPerDay == 24
DaysPerWeek == 7
DaysPerMonth == 30
DaysPerYear == 365

Second == TicksPerSecond
Hour == SecondsPerHour * Second
Day == HoursPerDay * Hour

\* datetime.timedelta(days, 0, 0, 0, 0, hours, weeks)
timedeltaMutant(days, hours, weeks) == days * Day + hours * Hour + weeks * Day

timedelta(days, hours, weeks) == days * Day + hours * Hour + weeks * DaysPerWeek * Day

(***************************************************************************)
(* parse_timedelta.  A string is a sequence of one-character strings.      *)
(***************************************************************************)
Digits == <<"0", "1", "2", "3", "4", "5", "6", "7", "8", "9">>

IsDigit(c) == \E d \in 1..Len(Digits) : Digits[d] = c

DigitValue(c) == (CHOOSE d \in 1..Len(Digits) : Digits[d] = c) - 1

\* str.lower() on one character
lower(c) ==
    CASE c = "Y" -> "y"
      [] c = "M" -> "m"
      [] c = "W" -> "w"
      [] c = "D" -> "d"
      [] c = "H" -> "h"
      [] OTHER -> c

\* int(num) of a string of decimal digits
RECURSIVE int(_)
int(num) ==
    IF num = <<>> THEN 0
    ELSE 10 * int(SubSeq(num, 1, Len(num) - 1)) + DigitValue(num[Len(num)])

\* The end (exclusive) of the longest run of digits (digit = TRUE) or of
\* non-digits (digit = FALSE) of str that starts at position i.
RECURSIVE RunEnd(_, _, _)
RunEnd(str, i, digit) ==
    IF i <= Len(str) /\ IsDigit(str[i]) = digit
    THEN RunEnd(str, i + 1, digit)
    ELSE i

\* re.findall(r'(\d+)(\D+)', str) from position p on: each match is a longest
\* run of digits followed by the longest run of non-digits after it; digits
\* that no non-digit follows match nothing.
RECURSIVE findall(_, _)
findall(str, p) ==
    IF p > Len(str) THEN <<>>
    ELSE IF ~IsDigit(str[p]) THEN findall(str, p + 1)
    ELSE LET j == RunEnd(str, p, TRUE) IN
         IF j > Len(str) THEN <<>>
         ELSE LET k == RunEnd(str, j, FALSE) IN
              <<[num |-> SubSeq(str, p, j - 1), unit |-> SubSeq(str, j, k - 1)]>>
                  \o findall(str, k)

Units == {"y", "m", "w", "d", "h"}

\* One pass of the loop body: delta[unit] = delta[unit] + int(num)
AccumulateMutant(d, unit, num) == [d EXCEPT ![unit] = int(num)]

Accumulate(d, unit, num) == [d EXCEPT ![unit] = d[unit] + int(num)]

\* The for loop over the tokens, from the dict of zeros.
RECURSIVE SumTokens(_, _)
SumTokens(tokens, n) ==
    IF n = 0 THEN [u \in Units |-> 0]
    ELSE Accumulate(SumTokens(tokens, n - 1), lower(tokens[n].unit[1]), tokens[n].num)

\* What parse_timedelta gives when delta[unit] raises KeyError (it re-raises).
KeyError == -1

parse_timedelta(str) ==
    LET tokens == findall(str, 1) IN
    IF \E n \in 1..Len(tokens) : lower(tokens[n].unit[1]) \notin Units
    THEN KeyError
    ELSE LET d == SumTokens(tokens, Len(tokens)) IN
         timedelta(d["y"] * DaysPerYear + d["m"] * DaysPerMonth + d["d"], d["h"], d["w"])


(***************************************************************************)
(* TaskKeepRule and Task.add_keep_rule                                     *)
(***************************************************************************)
\* sorted()/list.sort() is stable: Insert puts x behind every element whose
\* key is not larger.  A sorted sequence holds records with a field key.
RECURSIVE InsertMutant(_, _)
InsertMutant(sorted, x) ==
    IF sorted = <<>> THEN <<x>>
    ELSE IF sorted[Len(sorted)].key < x.key THEN Append(sorted, x)
    ELSE Append(InsertMutant(SubSeq(sorted, 1, Len(sorted) - 1), x), sorted[Len(sorted)])

RECURSIVE Insert(_, _)
Insert(sorted, x) ==
    IF sorted = <<>> THEN <<x>>
    ELSE IF sorted[Len(sorted)].key <= x.key THEN Append(sorted, x)
    ELSE Append(Insert(SubSeq(sorted, 1, Len(sorted) - 1), x), sorted[Len(sorted)])

RECURSIVE sort(_)
sort(list) ==
    IF list = <<>> THEN <<>>
    ELSE Insert(sort(SubSeq(list, 1, Len(list) - 1)), list[Len(list)])

Values(keyed) == [i \in 1..Len(keyed) |-> keyed[i].val]

\* TaskKeepRule(age, number): _age = parse_timedelta(age), _number = int(number)
TaskKeepRule(age, number) == [age |-> parse_timedelta(age), number |-> int(number)]

\* Task.add_keep_rule: append, then sort by get_age()
add_keep_rule(rules, age, number) ==
    LET appended == Append(rules, TaskKeepRule(age, number)) IN
    Values(sort([i \in 1..Len(appended) |-> [key |-> appended[i].age, val |-> appended[i]]]))

\* main's while loop over keep.<n>.age / keep.<n>.number of one section
RECURSIVE LoadRules(_)
LoadRules(options) ==
    IF options = <<>> THEN <<>>
    ELSE LET last == options[Len(options)] IN
         add_keep_rule(LoadRules(SubSeq(options, 1, Len(options) - 1)), last.age, last.number)

(***************************************************************************)
(* Task.find_existing_snapshots                                            *)
(***************************************************************************)
\* datetime.strftime(SNAPSHOT_FORMAT): the clock reading cut to whole seconds
strftime(t) == t \div Second

\* datetime.strptime(name, SNAPSHOT_FORMAT)
strptime(name) == name * Second

\* A directory name that is not of SNAPSHOT_FORMAT (every timestamp is a
\* number of seconds, 0 or more)
NotATimestamp == -1

\* Whether strptime(name, SNAPSHOT_FORMAT) returns; it raises ValueError for
\* a name that is not of the format, and nothing catches it.
IsTimestampMutant(name) == TRUE

IsTimestamp(name) == name >= 0

\* The list built from the directory names in the order os.walk gives them.
find_existing_snapshots(base, names, now) ==
    [i \in 1..Len(names) |->
        [name |-> names[i], path |-> <<base, names[i]>>,
         age |-> now - strptime(names[i]), keep |-> FALSE]]

\* The names of a directory, smallest first.
RECURSIVE Ascending(_)
Ascending(dir) ==
    IF dir = {} THEN <<>>
    ELSE LET least == CHOOSE n \in dir : \A m \in dir : n <= m IN
         <<least>> \o Ascending(dir \ {least})

Reverse(list) == [i \in 1..Len(list) |-> list[Len(list) + 1 - i]]

\* next(os.walk(path))[1]: the names of the subdirectories, in an order of the
\* file system's choosing.  The names are distinct, so the ages are, and the
\* callers sort by age before anything else: the two opposite orders stand
\* for all of them.
Orders(dir) == { Ascending(dir), Reverse(Ascending(dir)) }

(***************************************************************************)
(* Task.find_expired_snapshots                                             *)
(***************************************************************************)
Abs(x) == IF x < 0 THEN -x ELSE x

Max(x, y) == IF x > y THEN x ELSE y

\* Line 128: snapshots.sort(key=age)
SortByAge(snaps) ==
    Values(sort([j \in 1..Len(snaps) |-> [key |-> snaps[j].age, val |-> snaps[j]]]))

\* Lines 130-131: every keep flag is reset
ResetKeepMutant(snaps) == snaps

ResetKeep(snaps) == [j \in 1..Len(snaps) |-> [snaps[j] EXCEPT !.keep = FALSE]]

\* Line 138: the indices j of the snapshots younger than the rule and not kept
RECURSIVE AffectedMutant(_, _, _)
AffectedMutant(snaps, rule, n) ==
    IF n = 0 THEN <<>>
    ELSE LET rest == AffectedMutant(snaps, rule, n - 1) IN
         IF snaps[n].age < rule.age THEN Append(rest, n) ELSE rest

AffectedOfAnyAgeMutant(snaps, rule, n) ==
    SelectSeq([j \in 1..n |-> j], LAMBDA j : ~snaps[j].keep)

RECURSIVE Affected(_, _, _)
Affected(snaps, rule, n) ==
    IF n = 0 THEN <<>>
    ELSE LET rest == Affected(snaps, rule, n - 1) IN
         IF snaps[n].age < rule.age /\ ~snaps[n].keep
         THEN Append(rest, n) ELSE rest

\* Line 145: affected sorted by |age - ideal_age|; line 148 takes the first
NearestMutant(snaps, affected, ideal_age) ==
    LET distance(j) == Abs(snaps[j].age - ideal_age) IN
    CHOOSE j \in { affected[a] : a \in 1..Len(affected) } :
        \A a \in 1..Len(affected) :
            \/ distance(j) < distance(affected[a])
            \/ distance(j) = distance(affected[a]) /\ j >= affected[a]

Nearest(snaps, affected, ideal_age) ==
    Values(sort([a \in 1..Len(affected) |->
        [key |-> Abs(snaps[affected[a]].age - ideal_age), val |-> affected[a]]]))[1]

\* Lines 140-141; timedelta / int rounds down
IdealAgeMutant(rule, rule_start, i) ==
    LET delta_t == (rule.age - rule_start) \div rule.number IN
    delta_t * i + delta_t + rule_start

IdealAge(rule, rule_start, i) ==
    LET delta_t == (rule.age - rule_start) \div rule.number IN
    delta_t * i + delta_t \div 2 + rule_start

\* Lines 138-149: one pass of the inner loop.  st is the state of the call:
\* snapshots, largest_ideal_age, rule_start and the log of lines 144 and 149.
Slot(st, rule, i) ==
    LET affected == Affected(st.snapshots, rule, Len(st.snapshots)) IN
    IF affected = <<>> THEN st
    ELSE LET ideal_age == IdealAge(rule, st.rule_start, i)
             j == Nearest(st.snapshots, affected, ideal_age)
         IN [st EXCEPT !.largest_ideal_age = Max(@, ideal_age),
                       !.snapshots[j].keep = TRUE,
                       !.ideal_ages = Append(@, ideal_age),
                       !.keeping = Append(@, [name |-> st.snapshots[j].name,
                                              age |-> st.snapshots[j].age])]

\* for i in range(0, rule.get_number())
RECURSIVE Slots(_, _, _)
Slots(st, rule, n) == IF n <= 0 THEN st ELSE Slot(Slots(st, rule, n - 1), rule, n - 1)

\* for rule in self._keep_rules: ...; rule_start = rule.get_age()
RECURSIVE Rules(_, _, _)
Rules(st, rules, n) ==
    IF n = 0 THEN st
    ELSE [Slots(Rules(st, rules, n - 1), rules[n], rules[n].number)
             EXCEPT !.rule_start = rules[n].age]

\* Lines 153-156: keep all snapshots older than largest_ideal_age
KeepOlderMutant(snaps, largest_ideal_age) == snaps

KeepNotYoungerMutant(snaps, largest_ideal_age) ==
    [j \in 1..Len(snaps) |->
        IF snaps[j].age >= largest_ideal_age
        THEN [snaps[j] EXCEPT !.keep = TRUE] ELSE snaps[j]]

KeepOlder(snaps, largest_ideal_age) ==
    [j \in 1..Len(snaps) |->
        IF snaps[j].age > largest_ideal_age
        THEN [snaps[j] EXCEPT !.keep = TRUE] ELSE snaps[j]]

\* Line 158
Expired(snaps) == SelectSeq(snaps, LAMBDA snapshot : ~snapshot.keep)

\* The call: what it returns (expired), the list it leaves behind (snapshots,
\* sorted and flagged in place) and what it logs.
find_expired_snapshots(rules, snaps) ==
    LET st0 == [snapshots |-> ResetKeep(SortByAge(snaps)),
                largest_ideal_age |-> 0, rule_start |-> 0,
                ideal_ages |-> <<>>, keeping |-> <<>>]
        st == Rules(st0, rules, Len(rules))
        flagged == KeepOlder(st.snapshots, st.largest_ideal_age)
    IN [snapshots |-> flagged, expired |-> Expired(flagged),
        largest_ideal_age |-> st.largest_ideal_age,
        ideal_ages |-> st.ideal_ages, keeping |-> st.keeping]

(***************************************************************************)
(* Each specification below runs one part of the program; the variables of *)
(* the other parts stay at these values.                                   *)
(***************************************************************************)
ParserUnused == s = <<>> /\ delta = <<>>

RetentionUnused ==
    config = <<>> /\ keep_rules = <<>> /\ snapshots = <<>> /\ returned = <<>>

RunUnused ==
    /\ tasks = <<>> /\ fs = <<>> /\ clock = 0 /\ runs = 0 /\ pc = ""
    /\ task_index = 0 /\ command_index = 0
    /\ task_snapshot_path = <<>> /\ environment = <<>> /\ expired = <<>>
    /\ exception = "" /\ before = <<>> /\ made = <<>> /\ status = <<>>
    /\ removed = <<>> /\ executed = <<>> /\ cleaned = <<>>
    /\ denied = FALSE

(***************************************************************************)
(* ParserSpec: parse_timedelta applied to strings of up to MaxTokens       *)
(* tokens.                                                                 *)
(***************************************************************************)
TokenTexts ==
    { <<"1", "y">>, <<"1", "m">>, <<"1", "w">>, <<"2", "w">>, <<"7", "d">>,
      <<"1", "d">>, <<"1", "2", "h">>, <<"3", "H">>, <<"2", "d", "a", "y", "s">> }

RECURSIVE Concat(_)
Concat(seqs) == IF seqs = <<>> THEN <<>> ELSE Head(seqs) \o Concat(Tail(seqs))

TokenLists == UNION { [1..n -> TokenTexts] : n \in 0..MaxTokens }

ParserInit ==
    /\ s \in { Concat(ts) : ts \in TokenLists }
    /\ delta = <<>>
    /\ RetentionUnused
    /\ RunUnused

Parse ==
    /\ delta = <<>>
    /\ delta' = <<parse_timedelta(s)>>
    /\ UNCHANGED <<s, retention_vars, run_vars>>

ParserNext == Parse

ParserSpec == ParserInit /\ [][ParserNext]_vars

(***************************************************************************)
(* RetentionSpec: a task is loaded from its configuration, the snapshot    *)
(* directories of its base path are listed, and find_expired_snapshots is  *)
(* called on the list, then once more on the list the first call left.     *)
(***************************************************************************)
RuleAges == { <<"2", "h">>, <<"1", "d">> }

RuleNumbers == { <<Digits[n + 1]>> : n \in 0..MaxKeep }

RuleConfigs == UNION { [1..n -> [age : RuleAges, number : RuleNumbers]] : n \in 0..MaxRules }

\* The clock reading of the listing, and the directory names (whole seconds)
\* of the snapshots 0, 1, 2, 10, 20, 22, 24 and 30 hours older than it.
ListingClocks == { 48 * Hour }

SnapshotNames == { strftime((48 - h) * Hour) : h \in {0, 1, 2, 10, 20, 22, 24, 30} }

Directories == { dir \in SUBSET SnapshotNames : Cardinality(dir) <= MaxSnapshots }

RetentionInit ==
    /\ config \in RuleConfigs
    /\ keep_rules = LoadRules(config)
    /\ \E dir \in Directories, now \in ListingClocks :
         \E names \in Orders(dir) :
            snapshots = find_existing_snapshots("task", names, now)
    /\ returned = <<>>
    /\ ParserUnused
    /\ RunUnused

CallFindExpired ==
    /\ Len(returned) < 2
    /\ \E r \in { find_expired_snapshots(keep_rules, snapshots) } :
         /\ snapshots' = r.snapshots
         /\ returned' = Append(returned, [expired |-> r.expired,
                                          largest_ideal_age |-> r.largest_ideal_age,
                                          ideal_ages |-> r.ideal_ages,
                                          keeping |-> r.keeping])
    /\ UNCHANGED <<config, keep_rules, parser_vars, run_vars>>

RetentionNext == CallFindExpired

RetentionSpec == RetentionInit /\ [][RetentionNext]_vars

(***************************************************************************)
(* Spec: main is started up to MaxRuns times on a registry of two tasks.   *)
(* Each run is Snapshotter.take_snapshot, then Snapshotter.perform_cleanup.*)
(* The outcome of a command, and whether the file system lets a directory  *)
(* be removed, are the environment's choice.                               *)
(***************************************************************************)
TaskNames == <<"a", "b">>

Commands == <<"A", "B">>

Rule(age, number) == [age |-> age, number |-> number]

RunConfigs ==
    { <<>>,
      <<Rule(<<"1", "h">>, <<"1">>)>>,
      <<Rule(<<"1", "h">>, <<"2">>)>>,
      <<Rule(<<"2", "h">>, <<"1">>), Rule(<<"1", "h">>, <<"1">>)>> }

\* The ticks from the end of one run to the start of the next: the same
\* second, half an hour later, or an hour later.
RunGaps == { 1, Hour \div 2, Hour }

\* datetime.datetime.now(): a reading later than the last one
now(last) == last + 1

\* mkdir_recursive(path) of a snapshot directory: made unless it exists
mkdir_recursive(dir, name) == dir \cup {name}

\* shutil.rmtree(path), when the file system allows it
rmtreeMutant(dir, name) == dir

rmtree(dir, name) == dir \ {name}

Pending == [i \in 1..Len(TaskNames) |-> "pending"]

NothingRemoved == [i \in 1..Len(TaskNames) |-> {}]

NothingExecuted == [i \in 1..Len(TaskNames) |-> <<>>]

NothingCleaned == [i \in 1..Len(TaskNames) |-> <<>>]

Init ==
    /\ \E configs \in [1..Len(TaskNames) -> RunConfigs] :
         tasks = [i \in 1..Len(TaskNames) |->
                    [name |-> TaskNames[i], commands |-> Commands,
                     keep_rules |-> LoadRules(configs[i])]]
    /\ fs = [i \in 1..Len(TaskNames) |-> {}]
    /\ clock = 100 * Hour
    /\ runs = 1
    /\ pc = "take_snapshot"
    /\ task_index = 1
    /\ command_index = 0
    /\ task_snapshot_path = <<>>
    /\ environment = <<>>
    /\ expired = <<>>
    /\ exception = ""
    /\ before = NothingRemoved
    /\ made = <<>>
    /\ status = Pending
    /\ removed = NothingRemoved
    /\ executed = NothingExecuted
    /\ cleaned = NothingCleaned
    /\ denied = FALSE
    /\ ParserUnused
    /\ RetentionUnused

\* The end of one pass of take_snapshot's for loop: the next task, or, after
\* the last one, main goes on to perform_cleanup.
NextTaskToSnapshot ==
    IF task_index < Len(tasks)
    THEN pc' = "take_snapshot" /\ task_index' = task_index + 1
    ELSE pc' = "perform_cleanup" /\ task_index' = 1

\* The end of one pass of perform_cleanup's for loop.
NextTaskToClean ==
    IF task_index < Len(tasks)
    THEN pc' = "perform_cleanup" /\ task_index' = task_index + 1
    ELSE pc' = "done" /\ task_index' = task_index

\* Snapshotter.take_snapshot, lines 189-206: the task's directory is listed,
\* the new snapshot directory is made and the environment is built.
PrepareSnapshot ==
    /\ pc = "take_snapshot"
    /\ LET task == tasks[task_index]
           dir == fs[task_index]
           listed == now(clock)
           stamped == now(listed)
           timestamp == strftime(stamped)
       IN IF \E name \in dir : ~IsTimestamp(name)
          THEN /\ exception' = "ValueError"
               /\ pc' = "raised"
               /\ clock' = listed
               /\ before' = [before EXCEPT ![task_index] = dir]
               /\ UNCHANGED <<fs, task_snapshot_path, environment, made, status,
                              command_index>>
          ELSE \E names \in Orders(dir) :
            LET existing_snapshots ==
                    SortByAge(find_existing_snapshots(task.name, names, listed))
            IN /\ clock' = stamped
               /\ task_snapshot_path' = <<task.name, timestamp>>
               /\ fs' = [fs EXCEPT ![task_index] = mkdir_recursive(dir, timestamp)]
               /\ environment' =
                    IF existing_snapshots # <<>>
                    THEN [SNAPSHOT |-> <<task.name, timestamp>>,
                          YOUNGEST_SNAPSHOT |-> existing_snapshots[1].path]
                    ELSE [SNAPSHOT |-> <<task.name, timestamp>>]
               /\ before' = [before EXCEPT ![task_index] = dir]
               /\ made' = Append(made, timestamp)
               /\ status' = [status EXCEPT ![task_index] = "running"]
               /\ command_index' = 1
               /\ pc' = "commands"
               /\ UNCHANGED exception
    /\ UNCHANGED <<tasks, runs, task_index, expired, removed, denied>>
    /\ UNCHANGED <<executed, cleaned, parser_vars, retention_vars>>

\* subprocess.check_output raises CalledProcessError on a non-zero exit
\* status; lines 109-111 catch it and end the loop with False.
CalledProcessErrorMutant(returncode) == FALSE

CalledProcessError(returncode) == returncode # 0

\* Task.take_snapshot, lines 106-112: the next command runs; a non-zero exit
\* ends the loop with False, the last command's success ends it with True.
RunCommand ==
    /\ pc = "commands"
    /\ \E returncode \in {0, 1} :
         /\ executed' = [executed EXCEPT ![task_index] =
                Append(@, [command |-> tasks[task_index].commands[command_index],
                           returncode |-> returncode])]
         /\ IF CalledProcessError(returncode)
            THEN /\ status' = [status EXCEPT ![task_index] = "failed"]
                 /\ pc' = "rollback"
                 /\ UNCHANGED <<task_index, command_index>>
            ELSE IF command_index < Len(tasks[task_index].commands)
            THEN /\ command_index' = command_index + 1
                 /\ UNCHANGED <<status, pc, task_index>>
            ELSE /\ status' = [status EXCEPT ![task_index] = "taken"]
                 /\ NextTaskToSnapshot
                 /\ UNCHANGED command_index
    /\ UNCHANGED <<tasks, fs, clock, runs, task_snapshot_path, environment,
                   expired, exception, before, made, removed, denied>>
    /\ UNCHANGED <<cleaned, parser_vars, retention_vars>>

\* Snapshotter.take_snapshot, lines 207-209: shutil.rmtree of the new
\* directory; nothing catches the OSError of a removal the file system denies.
Rollback ==
    /\ pc = "rollback"
    /\ \E deny \in BOOLEAN :
         IF deny
         THEN /\ exception' = "OSError"
              /\ pc' = "raised"
              /\ denied' = TRUE
              /\ UNCHANGED <<fs, status, task_index>>
         ELSE /\ fs' = [fs EXCEPT ![task_index] = rmtree(@, task_snapshot_path[2])]
              /\ status' = [status EXCEPT ![task_index] = "rolled back"]
              /\ NextTaskToSnapshot
              /\ UNCHANGED <<exception, denied>>
    /\ UNCHANGED <<tasks, clock, runs, command_index, task_snapshot_path,
                   environment, expired, before, made, removed>>
    /\ UNCHANGED <<executed, cleaned, parser_vars, retention_vars>>

\* Line 217, for snapshot in expired: the snapshots the loop goes through
ToRemove(found) == found

\* Snapshotter.perform_cleanup, lines 213-216: the task's directory is listed
\* and the expired snapshots are computed.
ListExpired ==
    /\ pc = "perform_cleanup"
    /\ LET task == tasks[task_index]
           listed == now(clock)
       IN IF \E name \in fs[task_index] : ~IsTimestamp(name)
          THEN /\ exception' = "ValueError"
               /\ pc' = "raised"
               /\ clock' = listed
               /\ UNCHANGED <<cleaned, expired, task_index>>
          ELSE \E names \in Orders(fs[task_index]) :
            \E found \in { find_expired_snapshots(task.keep_rules,
                              find_existing_snapshots(task.name, names, listed)) } :
               /\ clock' = listed
               /\ cleaned' = [cleaned EXCEPT ![task_index] =
                      <<[dir |-> fs[task_index],
                         expired |-> { found.expired[j].name : j \in 1..Len(found.expired) }]>>]
               /\ expired' = ToRemove(found.expired)
               /\ IF ToRemove(found.expired) = <<>>
                  THEN NextTaskToClean
                  ELSE pc' = "remove" /\ task_index' = task_index
               /\ UNCHANGED exception
    /\ UNCHANGED <<tasks, fs, runs, command_index, task_snapshot_path, environment,
                   before, made, status, removed, denied>>
    /\ UNCHANGED <<executed, parser_vars, retention_vars>>

\* Snapshotter.perform_cleanup, lines 217-219: the next expired snapshot is
\* removed; nothing catches the OSError of a removal the file system denies.
RemoveExpired ==
    /\ pc = "remove"
    /\ \E deny \in BOOLEAN :
         IF deny
         THEN /\ exception' = "OSError"
              /\ pc' = "raised"
              /\ denied' = TRUE
              /\ UNCHANGED <<fs, expired, removed, task_index>>
         ELSE /\ fs' = [fs EXCEPT ![task_index] = rmtree(@, expired[1].name)]
              /\ removed' = [removed EXCEPT ![task_index] = @ \cup {expired[1].name}]
              /\ expired' = Tail(expired)
              /\ IF Tail(expired) = <<>>
                 THEN NextTaskToClean
                 ELSE UNCHANGED <<pc, task_index>>
              /\ UNCHANGED <<exception, denied>>
    /\ UNCHANGED <<tasks, clock, runs, command_index, task_snapshot_path,
                   environment, before, made, status>>
    /\ UNCHANGED <<executed, cleaned, parser_vars, retention_vars>>

\* Someone makes a directory that is not a snapshot in the base directory
\* of a task that the running loop has still to list (once: nothing removes
\* such a directory).
Interfere ==
    /\ pc \in {"take_snapshot", "perform_cleanup"}
    /\ \A i \in 1..Len(tasks) : NotATimestamp \notin fs[i]
    /\ \E i \in task_index..Len(tasks) :
         /\ fs' = [fs EXCEPT ![i] = @ \cup {NotATimestamp}]
    /\ UNCHANGED <<tasks, clock, runs, pc, task_index, command_index,
                   task_snapshot_path, environment, expired, exception, before,
                   made, status, removed, executed, cleaned, denied>>
    /\ UNCHANGED <<parser_vars, retention_vars>>

\* main is started again (by cron) after the last run has ended.
StartMain ==
    /\ pc \in {"done", "raised"}
    /\ runs < MaxRuns
    /\ \E gap \in RunGaps : clock' = clock + gap
    /\ runs' = runs + 1
    /\ pc' = "take_snapshot"
    /\ task_index' = 1
    /\ command_index' = 0
    /\ task_snapshot_path' = <<>>
    /\ environment' = <<>>
    /\ expired' = <<>>
    /\ exception' = ""
    /\ before' = NothingRemoved
    /\ made' = <<>>
    /\ status' = Pending
    /\ removed' = NothingRemoved
    /\ executed' = NothingExecuted
    /\ cleaned' = NothingCleaned
    /\ UNCHANGED <<tasks, fs, denied>>
    /\ UNCHANGED <<parser_vars, retention_vars>>

Next ==
    \/ PrepareSnapshot
    \/ RunCommand
    \/ Rollback
    \/ ListExpired
    \/ RemoveExpired
    \/ Interfere
    \/ StartMain

Spec == Init /\ [][Next]_vars

(***************************************************************************)
(* RulesSpec: main loads the keep rules of one section, one add_keep_rule  *)
(* call for each keep.<n>.age / keep.<n>.number pair, in the order of n.   *)
(***************************************************************************)
KeepAges == RuleAges \cup { <<"1", "w">> }

KeepOptions == UNION { [1..n -> [age : KeepAges, number : RuleNumbers]] : n \in 0..MaxRules }

RulesInit ==
    /\ config \in KeepOptions
    /\ keep_rules = <<>>
    /\ snapshots = <<>>
    /\ returned = <<>>
    /\ ParserUnused
    /\ RunUnused

\* One pass of main's while loop, lines 253-256
AddKeepRule ==
    /\ Len(keep_rules) < Len(config)
    /\ LET keep == Len(keep_rules) + 1 IN
         keep_rules' = add_keep_rule(keep_rules, config[keep].age, config[keep].number)
    /\ UNCHANGED <<config, snapshots, returned, parser_vars, run_vars>>

RulesNext == AddKeepRule

RulesSpec == RulesInit /\ [][RulesNext]_vars

(***************************************************************************)
(* Properties of the retention engine, under RetentionSpec.                *)
(***************************************************************************)
\* The calls of find_expired_snapshots made so far
Calls == 1..Len(returned)

\* The snapshots of the list (their ages are the same before and after a call)
Listed == { snapshots[j] : j \in 1..Len(snapshots) }

Ages == { snapshot.age : snapshot \in Listed }

ExpiredNames(call) == { call.expired[j].name : j \in 1..Len(call.expired) }

ExpiredAges(call) == { call.expired[j].age : j \in 1..Len(call.expired) }

OlderThanEveryRule(snapshot) ==
    \A n \in 1..Len(keep_rules) : snapshot.age > keep_rules[n].age

\* C1, as stated: a snapshot whose age is greater than the ageThreshold of
\* every rule of the task is never in the set find_expired_snapshots returns.
C1_OlderThanEveryRuleIsKept ==
    \A k \in Calls : \A snapshot \in Listed :
        OlderThanEveryRule(snapshot) => snapshot.name \notin ExpiredNames(returned[k])

\* C1, amended: a snapshot whose age is greater than 0 and greater than the
\* ageThreshold of every rule of the task is never in the set
\* find_expired_snapshots returns.  (With no rule at all, a snapshot of age 0
\* is older than every rule and is returned: age > largest_ideal_age = 0 fails.)
C1_OlderThanZeroAndEveryRuleIsKept ==
    \A k \in Calls : \A snapshot \in Listed :
        snapshot.age > 0 /\ OlderThanEveryRule(snapshot)
            => snapshot.name \notin ExpiredNames(returned[k])

\* A call on a task with rules has kept a snapshot older than all of them
\* while it returned a younger one.
C1_Witness ==
    /\ Len(returned) >= 1
    /\ keep_rules # <<>>
    /\ \E snapshot \in Listed : snapshot.age > 0 /\ OlderThanEveryRule(snapshot)
    /\ returned[1].expired # <<>>

Min(x, y) == IF x < y THEN x ELSE y

\* C5: for a task with a single rule (age A, keep K) and count snapshots
\* younger than A, every call keeps at least min(K, count) of the snapshots
\* younger than A (it returns at most count - min(K, count) of them).
C5_KeepCountLowerBound ==
    Len(keep_rules) = 1 =>
        \A k \in Calls :
            LET younger == { snapshot \in Listed : snapshot.age < keep_rules[1].age }
                kept == { snapshot \in younger : snapshot.name \notin ExpiredNames(returned[k]) }
                least == Min(keep_rules[1].number, Cardinality(younger))
            IN /\ Cardinality(kept) >= least
               /\ Cardinality(younger \ kept) <= Cardinality(younger) - least

\* A call with a single rule that keeps 2, on three snapshots younger than
\* the rule, has returned one of them.
C5_Witness ==
    /\ Len(returned) >= 1
    /\ Len(keep_rules) = 1
    /\ keep_rules[1].number = 2
    /\ Cardinality({ snapshot \in Listed : snapshot.age < keep_rules[1].age }) = 3
    /\ Len(returned[1].expired) = 1

\* C6, as stated: with no rules, every snapshot of age greater than 0 is
\* returned as expired.
C6_NoRulesExpireAllOlderThanZero ==
    keep_rules = <<>> =>
        \A k \in Calls : \A snapshot \in Listed :
            snapshot.age > 0 => snapshot.name \in ExpiredNames(returned[k])

\* C6, amended: with no rules largest_ideal_age stays 0 and every snapshot of
\* age greater than 0 is kept: exactly the snapshots of age 0 or less are
\* returned as expired (with snapshots aged 1h and 1d, none is).
C6_NoRulesKeepAllOlderThanZero ==
    keep_rules = <<>> =>
        \A k \in Calls :
            /\ returned[k].largest_ideal_age = 0
            /\ \A snapshot \in Listed :
                 snapshot.name \in ExpiredNames(returned[k]) <=> snapshot.age <= 0

\* A call with no rules on the snapshots aged 1h and 1d has returned nothing.
C6_Witness ==
    /\ Len(returned) >= 1
    /\ keep_rules = <<>>
    /\ Ages = {1 * Hour, 1 * Day}
    /\ returned[1].expired = <<>>

\* The rule (age 1d, keep 2) on the snapshots aged 2h, 10h and 20h
OneDayKeepTwo ==
    /\ Len(returned) >= 1
    /\ keep_rules = <<[age |-> 1 * Day, number |-> 2]>>
    /\ Ages = {2 * Hour, 10 * Hour, 20 * Hour}

KeptAges(call) == [j \in 1..Len(call.keeping) |-> call.keeping[j].age]

\* C7, as stated: the ideal ages are 6h and 18h, the snapshots selected are
\* 10h and 20h, and exactly {2h} is returned.
C7_ExampleSelects10hAnd20h ==
    OneDayKeepTwo =>
        \A k \in Calls :
            /\ returned[k].ideal_ages = <<6 * Hour, 18 * Hour>>
            /\ KeptAges(returned[k]) = <<10 * Hour, 20 * Hour>>
            /\ ExpiredAges(returned[k]) = {2 * Hour}

\* C7, amended: the ideal ages are 6h and 18h; 2h and 10h are equally near
\* to 6h and the stable sort leaves 2h first, so the snapshots selected are
\* 2h and 20h, and exactly {10h} is returned.
C7_ExampleSelects2hAnd20h ==
    OneDayKeepTwo =>
        \A k \in Calls :
            /\ returned[k].ideal_ages = <<6 * Hour, 18 * Hour>>
            /\ KeptAges(returned[k]) = <<2 * Hour, 20 * Hour>>
            /\ ExpiredAges(returned[k]) = {10 * Hour}

\* The example has been run: one snapshot of the three was returned.
C7_Witness == OneDayKeepTwo /\ Len(returned[1].expired) = 1

\* C9: a second call, on the list the first call sorted and flagged, returns
\* the same expired snapshots as the first, and the task's rules are after
\* every call the rules loaded from the configuration.
C9_DeterministicAndRulesUnchanged ==
    /\ Len(returned) = 2 => returned[2].expired = returned[1].expired
    /\ Len(returned) >= 1 => keep_rules = LoadRules(config)

\* Two calls have been made under a rule, and the first selected a snapshot
\* and returned another.
C9_Witness ==
    /\ Len(returned) = 2
    /\ keep_rules # <<>>
    /\ returned[1].expired # <<>>
    /\ Len(returned[1].keeping) >= 1

(***************************************************************************)
(* Properties of parse_timedelta, under ParserSpec.                        *)
(***************************************************************************)
\* The hours one unit stands for: year = 365d, month = 30d, week = 7d,
\* day = 24h, hour
HoursOf(unit) ==
    CASE unit = "y" -> 365 * 24
      [] unit = "m" -> 30 * 24
      [] unit = "w" -> 7 * 24
      [] unit = "d" -> 24
      [] unit = "h" -> 1

\* The sum over tokens 1..n of number * unit
RECURSIVE WeightedSum(_, _)
WeightedSum(tokens, n) ==
    IF n = 0 THEN 0
    ELSE WeightedSum(tokens, n - 1)
             + int(tokens[n].num) * HoursOf(lower(tokens[n].unit[1])) * Hour

\* The string written from the tokens in the order p
Rewritten(tokens, p) ==
    Concat([i \in 1..Len(tokens) |-> tokens[p[i]].num \o tokens[p[i]].unit])

\* C10: the duration parsed is the sum over the tokens of number * unit, so
\* tokens of one unit add up ("1y1y" is "2y"), and the string written from
\* the same tokens in any other order parses to the same duration.
C10_TokensSumInAnyOrder ==
    delta # <<>> /\ delta # <<KeyError>> =>
        LET tokens == findall(s, 1) IN
        /\ delta[1] = WeightedSum(tokens, Len(tokens))
        /\ \A p \in Permutations(1..Len(tokens)) :
             parse_timedelta(Rewritten(tokens, p)) = delta[1]
        /\ s = <<"1", "y", "1", "y">> => delta[1] = parse_timedelta(<<"2", "y">>)
        /\ s = <<"1", "d", "1", "d">> => delta[1] = 2 * Day

\* "1y1y" has been parsed, and so has a string of three different units.
C10_Witness ==
    /\ delta # <<>>
    /\ \/ s = <<"1", "y", "1", "y">> /\ delta = <<2 * 365 * Day>>
       \/ s = <<"1", "w", "1", "2", "h", "1", "y">>

(***************************************************************************)
(* Properties of a run of main, under Spec.                                *)
(***************************************************************************)
\* The task whose pass of perform_cleanup's loop has just ended (0: none).
\* The clock has not been read since that pass listed the task's directory.
JustCleaned ==
    IF pc = "done" THEN Len(tasks)
    ELSE IF pc = "perform_cleanup" THEN task_index - 1
    ELSE 0

\* What perform_cleanup would remove from task i's directory if it ran on it
\* now, the names given in the order names
RemovedByAnotherPass(i, names) ==
    ToRemove(find_expired_snapshots(tasks[i].keep_rules,
                 find_existing_snapshots(tasks[i].name, names, clock)).expired)

TakingSnapshots ==
    \/ pc \in {"take_snapshot", "commands", "rollback"}
    \/ pc = "perform_cleanup" /\ task_index = 1

\* C3: after take_snapshot has processed a task one of whose commands failed,
\* the directory made for this run does not exist and the task's snapshot
\* directories are those it had before, whatever they were.  (Stated for the
\* runs in which every removal was allowed.)
C3_RollbackRestoresDirectory ==
    TakingSnapshots /\ ~denied =>
        \A i \in 1..Len(made) :
            status[i] = "rolled back" => made[i] \notin fs[i] /\ fs[i] = before[i]

\* C4: a failed command of one task never aborts the run: main is never ended
\* by an exception while a task's failed command is being handled.
C4_CommandFailureNeverAbortsRun ==
    ~(pc = "raised" /\ \E i \in 1..Len(status) : status[i] = "failed")

\* C8: a snapshot directory that cannot be removed does not abort the run:
\* main is never ended by the OSError of shutil.rmtree.
C8_DeletionFailureNeverAbortsRun ==
    pc = "raised" => exception # "OSError"

(***************************************************************************)
(* More properties of parse_timedelta, under ParserSpec.                   *)
(***************************************************************************)
\* "1w" has been parsed
ParsedOneWeek == s = <<"1", "w">> /\ delta # <<>>

\* C11, as stated: in total seconds, parse_timedelta("1w") multiplied by 7
\* equals parse_timedelta("7d").
C11_WeekTimesSevenIsSevenDays ==
    ParsedOneWeek => (delta[1] \div Second) * 7 = parse_timedelta(<<"7", "d">>) \div Second

\* C11, amended: in total seconds, parse_timedelta("1w") equals
\* parse_timedelta("7d") (604800 s), which is parse_timedelta("1d")
\* multiplied by 7.
C11_WeekIsSevenDays ==
    ParsedOneWeek =>
        /\ delta[1] \div Second = parse_timedelta(<<"7", "d">>) \div Second
        /\ delta[1] \div Second = (parse_timedelta(<<"1", "d">>) \div Second) * 7
        /\ delta[1] \div Second = 604800

\* "1w" has been parsed to seven days.
C11_Witness == ParsedOneWeek /\ delta = <<7 * Day>>

(***************************************************************************)
(* More properties of a run of main, under Spec.                           *)
(***************************************************************************)
\* The tasks take_snapshot has reached in this run
Reached == 1..Len(made)

NoOtherYoungSnapshot(i) ==
    \/ tasks[i].keep_rules = <<>>
    \/ \A name \in before[i] \ {made[i]} :
          strptime(made[i]) - strptime(name) >= tasks[i].keep_rules[1].age

LastRule == keep_rules[Len(keep_rules)]

\* rule_start when the loop reaches the last rule
LastRuleStart == IF Len(keep_rules) = 1 THEN 0 ELSE keep_rules[Len(keep_rules) - 1].age

\* The snapshots a call on (rules, snaps) returns whose age lies strictly
\* between largest_ideal_age and the last rule's ageThreshold
ExpiredInGap(rules, snaps) ==
    LET call == find_expired_snapshots(rules, snaps) IN
    { j \in 1..Len(call.expired) :
        /\ call.expired[j].age > call.largest_ideal_age
        /\ call.expired[j].age < rules[Len(rules)].age }

\* There are a rule list among configs and a snapshot set among dirs for
\* which a snapshot in the gap is returned.
SomeGapSnapshotExpires(configs, dirs) ==
    \E options \in configs, dir \in dirs, listed \in ListingClocks :
        /\ options # <<>>
        /\ ExpiredInGap(LoadRules(options),
               find_existing_snapshots("task", Ascending(dir), listed)) # {}

\* C13, as stated: largest_ideal_age is strictly less than the last rule's
\* ageThreshold whenever its keepCount is greater than 1, and there are rule
\* lists and snapshot sets for which a snapshot whose age lies strictly
\* between largest_ideal_age and the last rule's ageThreshold is returned.
C13_GapSnapshotsExpire ==
    /\ \A k \in Calls :
         keep_rules # <<>> /\ LastRule.number > 1
             => returned[k].largest_ideal_age < LastRule.age
    /\ SomeGapSnapshotExpires(RuleConfigs, Directories)

\* C13, amended: largest_ideal_age is never greater than the last rule's
\* ageThreshold, and is strictly less whenever the last rule's ageThreshold
\* is greater than the rule before it (whatever the keepCount); a snapshot
\* whose age is greater than largest_ideal_age, the snapshots between
\* largest_ideal_age and the last rule's ageThreshold included, is never
\* returned: the safety net keeps them all.
C13_GapSnapshotsAreKept ==
    \A k \in Calls :
        /\ keep_rules # <<>> => returned[k].largest_ideal_age <= LastRule.age
        /\ keep_rules # <<>> /\ LastRule.age > LastRuleStart
               => returned[k].largest_ideal_age < LastRule.age
        /\ \A snapshot \in Listed :
             snapshot.age > returned[k].largest_ideal_age
                 => snapshot.name \notin ExpiredNames(returned[k])

\* A call under a last rule that keeps 2 has selected 2 snapshots and found
\* a third in the gap, which no rule selected.
C13_Witness ==
    /\ Len(returned) >= 1
    /\ keep_rules # <<>>
    /\ LastRule.number > 1
    /\ Len(returned[1].keeping) >= 2
    /\ \E snapshot \in Listed :
         /\ snapshot.age > returned[1].largest_ideal_age
         /\ snapshot.age < LastRule.age
         /\ \A j \in 1..Len(returned[1].keeping) :
              returned[1].keeping[j].name # snapshot.name

\* What the loop over the first n rules has selected (the log of line 149),
\* from the list as the call finds it
SelectedUpTo(n) ==
    Rules([snapshots |-> ResetKeep(SortByAge(snapshots)),
           largest_ideal_age |-> 0, rule_start |-> 0,
           ideal_ages |-> <<>>, keeping |-> <<>>], keep_rules, n).keeping

\* SelectedUpTo(n) for every n, each worked out once
SelectedByPrefix == [n \in 0..Len(keep_rules) |-> SelectedUpTo(n)]

\* What the loop of rule n has selected
SelectedBy(n) ==
    SubSeq(SelectedUpTo(n), Len(SelectedUpTo(n - 1)) + 1, Len(SelectedUpTo(n)))

RECURSIVE SumOfKeepCounts(_)
SumOfKeepCounts(n) == IF n = 0 THEN 0 ELSE SumOfKeepCounts(n - 1) + keep_rules[n].number

\* The snapshots a call kept whose age is not above its largest_ideal_age
KeptBelow(call) ==
    { snapshot \in Listed :
        /\ snapshot.name \notin ExpiredNames(call)
        /\ snapshot.age <= call.largest_ideal_age }

\* C14: each rule's loop selects at most keepCount snapshots, each of an age
\* strictly below the rule's ageThreshold and not selected before, and after
\* a call the kept snapshots of age <= largest_ideal_age are never more than
\* the sum of keepCount over all rules.
C14_SelectionUpperBound ==
    Calls # {} =>
        \A upto \in {SelectedByPrefix} :
            /\ \A n \in 1..Len(keep_rules) :
                 LET earlier == upto[n - 1]
                     selected == SubSeq(upto[n], Len(earlier) + 1, Len(upto[n]))
                 IN /\ Len(selected) <= keep_rules[n].number
                    /\ \A a \in 1..Len(selected) :
                         /\ selected[a].age < keep_rules[n].age
                         /\ \A b \in 1..Len(earlier) : earlier[b].name # selected[a].name
                         /\ \A b \in 1..(a - 1) : selected[b].name # selected[a].name
            /\ \A k \in Calls :
                 /\ returned[k].keeping = upto[Len(keep_rules)]
                 /\ Cardinality(KeptBelow(returned[k])) <= SumOfKeepCounts(Len(keep_rules))
                 /\ Cardinality(KeptBelow(returned[k])) <= Len(returned[k].keeping)

\* A call under two rules, each of which selected a snapshot, has returned a
\* snapshot that no rule selected.
C14_Witness ==
    /\ Len(returned) >= 1
    /\ Len(keep_rules) = 2
    /\ SelectedBy(1) # <<>>
    /\ SelectedBy(2) # <<>>
    /\ KeptBelow(returned[1]) # {}
    /\ returned[1].expired # <<>>

\* C15: the commands a task has run in this run are the first ones of its
\* declared commands, in the declared order, each once; only the last one run
\* can have failed, so no command is run after a failed one; a task whose
\* snapshot is taken has run them all.
C15_CommandsInOrderUntilFailure ==
    \A i \in 1..Len(executed) :
        LET log == executed[i]
            commands == tasks[i].commands
        IN /\ Len(log) <= Len(commands)
           /\ \A n \in 1..Len(log) : log[n].command = commands[n]
           /\ \A n \in 1..(Len(log) - 1) : log[n].returncode = 0
           /\ status[i] \in {"failed", "rolled back"}
                  => log # <<>> /\ log[Len(log)].returncode # 0
           /\ status[i] = "taken"
                  => Len(log) = Len(commands) /\ log[Len(log)].returncode = 0

\* The first command of one task failed and its second command was not
\* run, while another task ran both of its commands.
C15_Witness ==
    \E i, j \in 1..Len(executed) :
        /\ status[i] = "rolled back"
        /\ Len(executed[i]) = 1
        /\ status[j] = "taken"
        /\ Len(executed[j]) = 2

\* The path of the snapshot of the least age among those task i had before
\* take_snapshot made this run's directory (the latest name)
YoungestPrior(i) ==
    <<tasks[i].name, CHOOSE name \in before[i] : \A other \in before[i] : other <= name>>

\* C16: while a task's commands run, SNAPSHOT is the directory newly made for
\* this run, YOUNGEST_SNAPSHOT is the path of the snapshot of the least age
\* that existed before, a directory other than SNAPSHOT, and
\* YOUNGEST_SNAPSHOT is absent exactly when the task had no snapshot before.
C16_EnvironmentNamesNewAndYoungestPrior ==
    pc = "commands" =>
        /\ environment.SNAPSHOT = <<tasks[task_index].name, made[task_index]>>
        /\ made[task_index] \in fs[task_index] \ before[task_index]
        /\ "YOUNGEST_SNAPSHOT" \notin DOMAIN environment <=> before[task_index] = {}
        /\ before[task_index] # {} =>
             /\ environment.YOUNGEST_SNAPSHOT = YoungestPrior(task_index)
             /\ environment.YOUNGEST_SNAPSHOT # environment.SNAPSHOT

\* perform_cleanup has ended in this run: it returned, or a removal raised
CleanupEnded ==
    pc = "done" \/ (pc = "raised" /\ exception = "OSError" /\ cleaned # NothingCleaned)

\* C17: perform_cleanup removes, for each task, exactly the snapshots that
\* find_expired_snapshots returned for the task's listing: when it has ended,
\* every task was listed and every returned snapshot is removed, and at any
\* time the snapshots not returned, of the task and of the other tasks, are
\* in place.
C17_CleanupRemovesExactlyTheExpired ==
    /\ \A i \in 1..Len(cleaned) :
         IF cleaned[i] = <<>>
         THEN removed[i] = {}
         ELSE /\ removed[i] \subseteq cleaned[i][1].expired
              /\ fs[i] = cleaned[i][1].dir \ removed[i]
    /\ CleanupEnded =>
         \A i \in 1..Len(cleaned) :
            /\ cleaned[i] # <<>>
            /\ removed[i] = cleaned[i][1].expired

\* C18: find_expired_snapshots keeps at least one snapshot of a directory
\* that is not empty, and a task that had a snapshot when take_snapshot
\* reached it still has at least one, at every point of the run.  (Stated
\* for the runs in which every removal was allowed.)
C18_CleanupNeverEmptiesHistory ==
    ~denied =>
        /\ \A i \in 1..Len(cleaned) :
             cleaned[i] # <<>> /\ cleaned[i][1].dir # {}
                 => cleaned[i][1].dir \ cleaned[i][1].expired # {}
        /\ \A i \in Reached : before[i] # {} => fs[i] # {}

(***************************************************************************)
(* Properties of Task.add_keep_rule, under RulesSpec.                      *)
(***************************************************************************)
\* The rules added so far, in the order of the calls
Added == [n \in 1..Len(keep_rules) |-> TaskKeepRule(config[n].age, config[n].number)]

\* C19: after every add_keep_rule call the task's rule list is sorted
\* ascending by age and holds exactly the rules added so far, those of equal
\* age in the order they were added.
C19_RulesSortedAndStable ==
    /\ Len(keep_rules) <= Len(config)
    /\ \A i, j \in 1..Len(keep_rules) : i < j => keep_rules[i].age <= keep_rules[j].age
    /\ \E p \in Permutations(1..Len(keep_rules)) :
         /\ \A i \in 1..Len(keep_rules) : keep_rules[i] = Added[p[i]]
         /\ \A i, j \in 1..Len(keep_rules) :
              i < j /\ keep_rules[i].age = keep_rules[j].age => p[i] < p[j]

\* Two rules have been added, the older one first, or two of the same age
\* that keep different numbers.
C19_Witness ==
    /\ Len(keep_rules) = 2
    /\ \/ Added[1].age > Added[2].age /\ keep_rules = <<Added[2], Added[1]>>
       \/ Added[1].age = Added[2].age /\ Added[1].number # Added[2].number

\* The snapshot directories of task i when take_snapshot is through with it
AfterTakeSnapshot(i) ==
    IF status[i] = "taken" THEN before[i] \cup {made[i]} ELSE before[i] \ {made[i]}

\* C20: a base directory that holds a name that is not a timestamp is never
\* listed without an error (take_snapshot makes no directory for the task and
\* perform_cleanup works out no expired snapshots for it), the ValueError
\* ends main, and the call that raised it has made and removed no snapshot
\* directory of that task.
C20_CorruptListingPropagates ==
    /\ \A i \in Reached : NotATimestamp \notin before[i]
    /\ \A i \in 1..Len(cleaned) :
         cleaned[i] # <<>> => NotATimestamp \notin cleaned[i][1].dir
    /\ exception = "ValueError" =>
         /\ pc = "raised"
         /\ NotATimestamp \in fs[task_index]
         /\ IF Len(made) < task_index
            THEN /\ status[task_index] = "pending"
                 /\ fs[task_index] = before[task_index]
            ELSE /\ cleaned[task_index] = <<>>
                 /\ removed[task_index] = {}
                 /\ fs[task_index] = AfterTakeSnapshot(task_index) \cup {NotATimestamp}

\* A listing has raised ValueError for a task that has snapshots next to the
\* directory that is not one.
C20_Witness ==
    /\ pc = "raised"
    /\ exception = "ValueError"
    /\ fs[task_index] \ {NotATimestamp} # {}

=============================================================================
